---- MODULE Spec2Model ----
(***************************************************************************)
(* Expense Tracker (src/app.py): a Streamlit script over a SQLite file.    *)
(*                                                                         *)
(* Every user interaction reruns the whole script: init_db(), then         *)
(* apply_recurring(today), then the widgets, of which at most one button   *)
(* or form fires.  The model follows that shape: pc walks                  *)
(*   idle -> for/while/update/commit (the poster) -> ui (one handler)      *)
(*        -> idle.                                                         *)
(*                                                                         *)
(* Dates are stored as ISO text "YYYY-MM-DD"; the model writes that text   *)
(* as the number YYYYMMDD (same order as the text) and a dt.date as a      *)
(* record [year, month, day].  "YYYY-MM" month keys are the number YYYYMM. *)
(* Amounts are whole numbers.  created_at (audit only) is left out.        *)
(***************************************************************************)
EXTENDS Integers, Sequences, FiniteSets, TLC

----------------------------------------------------------------------------
(* Bounds of the model *)

\* recurring ids handed out by AUTOINCREMENT stay <= MaxRuleId
MaxRuleId == 2
\* a rerun of the script starts only while fewer rows than this are stored
MaxTxns == 3
\* budget ids handed out by AUTOINCREMENT stay <= MaxBudgetId
MaxBudgetId == 3
\* add_months is exercised with months in -MaxShift..MaxShift
MaxShift == 14

----------------------------------------------------------------------------
(* Calendar utilities *)

Date(y, m, d) == [year |-> y, month |-> m, day |-> d]

\* dt.date.fromisoformat on the stored text
to_date(x) == Date(x \div 10000, (x \div 100) % 100, x % 100)

\* dt.date.isoformat
isoformat(d) == d.year * 10000 + d.month * 100 + d.day

\* f"{d.year:04d}-{d.month:02d}"
month_key(d) == d.year * 100 + d.month

\* dt.date comparison a <= b
DateLE(a, b) ==
    IF a.year # b.year THEN a.year < b.year
    ELSE IF a.month # b.month THEN a.month < b.month
    ELSE a.day <= b.day

Min(a, b) == IF a <= b THEN a ELSE b

\* the February entry of the list literal inside add_months, without the
\* century clauses (every fourth year a leap year)
FebruaryLenJulian(y) == IF y % 4 = 0 THEN 29 ELSE 28

\* the February entry of the list literal inside add_months
FebruaryLen(y) ==
    IF y % 4 = 0 /\ (y % 100 # 0 \/ y % 400 = 0) THEN 29 ELSE 28

\* the list literal inside add_months
MonthLengths(y) ==
    <<31, FebruaryLen(y), 31, 30, 31, 30, 31, 31, 30, 31, 30, 31>>

\* add_months without the carry into the year: the month after December is
\* January of the same year
add_months_no_carry(d, months) ==
    LET y   == d.year
        m   == ((d.month - 1 + months) % 12) + 1
        day == Min(d.day, MonthLengths(y)[m])
    IN  Date(y, m, day)

\* add_months(d, months)
add_months(d, months) ==
    LET y   == d.year + (d.month - 1 + months) \div 12
        m   == ((d.month - 1 + months) % 12) + 1
        day == Min(d.day, MonthLengths(y)[m])
    IN  Date(y, m, day)

----------------------------------------------------------------------------
(* State *)

VARIABLES
    \* the SQLite file (committed state)
    transactions,   \* table transactions, in id order
    categories,     \* table categories
    budgets,        \* table budgets, in id order
    recurring,      \* table recurring, in id order
    seq,            \* sqlite_sequence: last AUTOINCREMENT id of each table
    \* the script run
    pc,             \* where the run is
    now,            \* dt.date.today() of this run
    rows,           \* apply_recurring: rows fetched by SELECT * FROM recurring
    idx,            \* apply_recurring: position of r in rows
    next_date,      \* apply_recurring: the local next_date
    made,           \* apply_recurring: the local made (the value returned)
    pendIns,        \* INSERTs of the connection's open transaction
    pendUpd,        \* UPDATEs of the connection's open transaction
    msg,            \* what the run last showed (toast/success/error/warning)
    \* history of the run, kept to state the properties
    passLog,        \* <<rule id, date>> of each INSERT of this pass, in order
    lastPosted,     \* rule id -> date of the last row posted from it (0: none)
    edited,         \* rule id -> its Save was pressed since that row
    clean,          \* the last pass committed and no rule changed since
    repeat,         \* this pass follows a committed pass with the same now
    lastSet,        \* <<month, category>> -> amount of its last set_budget
    \* calendar harness
    calD, calN, calR

dbVars == <<transactions, categories, budgets, recurring, seq>>
passVars == <<now, rows, idx, next_date, made, pendIns, pendUpd, passLog, repeat>>
histVars == <<lastPosted, edited, clean, lastSet>>
calVars == <<calD, calN, calR>>
vars == <<dbVars, pc, passVars, msg, histVars, calVars>>

NoDate == Date(0, 1, 1)
RuleIds == 1..MaxRuleId

DefaultCategories ==
    {"Food", "Transport", "Rent", "Utilities", "Shopping", "Health",
     "Entertainment", "Salary", "Other"}

Txn(id, date, ttype, category, description, amount, account) ==
    [id |-> id, date |-> date, ttype |-> ttype, category |-> category,
     description |-> description, amount |-> amount, account |-> account]

Rule(id, ttype, category, description, amount, interval, nd) ==
    [id |-> id, ttype |-> ttype, category |-> category,
     description |-> description, amount |-> amount,
     interval |-> interval, next_date |-> nd]

Budget(id, month, category, amount) ==
    [id |-> id, month |-> month, category |-> category, amount |-> amount]

Range(s) == {s[i] : i \in DOMAIN s}

----------------------------------------------------------------------------
(* Initial state: init_db() on a fresh file *)

InitDb ==
    /\ transactions = <<>>
    /\ categories = DefaultCategories
    /\ budgets = <<>>
    /\ recurring = <<>>
    /\ seq = [transactions |-> 0, budgets |-> 0, recurring |-> 0]

InitRun ==
    /\ pc = "idle"
    /\ now = NoDate
    /\ rows = <<>>
    /\ idx = 0
    /\ next_date = NoDate
    /\ made = 0
    /\ pendIns = <<>>
    /\ pendUpd = <<>>
    /\ msg = ""
    /\ passLog = <<>>
    /\ lastPosted = [id \in RuleIds |-> 0]
    /\ edited = [id \in RuleIds |-> FALSE]
    /\ clean = FALSE
    /\ repeat = FALSE
    /\ lastSet = <<>>

InitCal ==
    /\ calD = NoDate
    /\ calN = 0
    /\ calR = NoDate

Init == InitDb /\ InitRun /\ InitCal

----------------------------------------------------------------------------
(* init_db() at the top of every run: the tables exist already; the default *)
(* categories are seeded again when the table is empty.                     *)

init_db ==
    categories' = IF categories = {} THEN DefaultCategories ELSE categories

----------------------------------------------------------------------------
(* apply_recurring(now) *)

PassPcs == {"for", "while", "update", "commit"}

\* while next_date <= now, with < in place of <=
LoopCondStrict(nd, today) == DateLE(nd, today) /\ nd # today

\* while next_date <= now
LoopCond(nd, today) == DateLE(nd, today)

\* if r["interval"] == "monthly", taken for every interval
IsMonthlyAlways(r) == TRUE

\* if r["interval"] == "monthly"
IsMonthly(r) == r.interval = "monthly"

\* if next_date != to_date(r["next_date"]), never taken
NeedsUpdateNever(nd, r) == FALSE

\* if next_date != to_date(r["next_date"])
NeedsUpdate(nd, r) == nd # to_date(r.next_date)

\* the value written by UPDATE, stepped once from the stored date instead
UpdatedDateOneStep(nd, r) == isoformat(add_months(to_date(r.next_date), 1))

\* the value written by UPDATE recurring SET next_date=?
UpdatedDate(nd, r) == isoformat(nd)

\* cur.execute(INSERT ...) on a connection in autocommit mode
execute_insert_autocommit(row) ==
    /\ transactions' = Append(transactions, row)
    /\ seq' = [seq EXCEPT !.transactions = row.id]
    /\ UNCHANGED pendIns

\* cur.execute(INSERT ...): sqlite3 opens a transaction before the first
\* INSERT/UPDATE; nothing reaches the file before conn.commit()
execute_insert(row) ==
    /\ pendIns' = Append(pendIns, row)
    /\ UNCHANGED <<transactions, seq>>

\* cur.execute(UPDATE recurring SET next_date=? WHERE id=?)
execute_update(id, nd) ==
    /\ pendUpd' = Append(pendUpd, [id |-> id, next_date |-> nd])
    /\ UNCHANGED recurring

\* UPDATE recurring SET next_date=? with no WHERE clause: every rule takes
\* the date of the last UPDATE
ApplyUpdatesAll(tbl, u) ==
    [i \in DOMAIN tbl |->
        IF u # <<>> THEN [tbl[i] EXCEPT !.next_date = u[Len(u)].next_date]
        ELSE tbl[i]]

\* the table recurring with the UPDATEs u applied
ApplyUpdates(tbl, u) ==
    [i \in DOMAIN tbl |->
        IF \E k \in DOMAIN u : u[k].id = tbl[i].id
        THEN LET k == CHOOSE k \in DOMAIN u :
                        /\ u[k].id = tbl[i].id
                        /\ \A j \in DOMAIN u : u[j].id = tbl[i].id => j <= k
             IN  [tbl[i] EXCEPT !.next_date = u[k].next_date]
        ELSE tbl[i]]

\* the dates logged for rule id, in order
RECURSIVE LogDates(_, _)
LogDates(log, id) ==
    IF log = <<>> THEN <<>>
    ELSE IF Head(log).rid = id THEN <<Head(log).date>> \o LogDates(Tail(log), id)
    ELSE LogDates(Tail(log), id)

Last(s) == s[Len(s)]

\* A run of the script starts: init_db(), then apply_recurring(today) up to
\* rows = cur.fetchall() and made = 0.
Rerun(today) ==
    /\ pc = "idle"
    /\ Len(transactions) < MaxTxns
    /\ init_db
    /\ now' = to_date(today)
    /\ rows' = recurring
    /\ idx' = 0
    /\ next_date' = NoDate
    /\ made' = 0
    /\ pendIns' = <<>>
    /\ pendUpd' = <<>>
    /\ passLog' = <<>>
    /\ repeat' = (clean /\ now = to_date(today))
    /\ msg' = ""
    /\ pc' = "for"
    /\ UNCHANGED <<transactions, budgets, recurring, seq, histVars, calVars>>

\* for r in rows: next_date = to_date(r["next_date"])
ForStep ==
    /\ pc = "for"
    /\ IF idx < Len(rows)
       THEN /\ idx' = idx + 1
            /\ next_date' = to_date(rows[idx + 1].next_date)
            /\ pc' = "while"
       ELSE /\ pc' = "commit"
            /\ UNCHANGED <<idx, next_date>>
    /\ UNCHANGED <<dbVars, now, rows, made, pendIns, pendUpd, passLog, repeat,
                   msg, histVars, calVars>>

\* one test of the while condition and, when it holds, one turn of the body
WhileStep ==
    /\ pc = "while"
    /\ LET r == rows[idx] IN
       IF LoopCond(next_date, now)
       THEN /\ execute_insert(Txn(seq.transactions + Len(pendIns) + 1,
                                  isoformat(next_date), r.ttype, r.category,
                                  r.description, r.amount, "Recurring"))
            /\ made' = made + 1
            /\ passLog' = Append(passLog, [rid |-> r.id, date |-> isoformat(next_date)])
            /\ IF IsMonthly(r)
               THEN /\ next_date' = add_months(next_date, 1)
                    /\ pc' = "while"
               ELSE /\ pc' = "update"
                    /\ UNCHANGED next_date
       ELSE /\ pc' = "update"
            /\ UNCHANGED <<transactions, seq, pendIns, made, passLog, next_date>>
    /\ UNCHANGED <<categories, budgets, recurring, now, rows, idx, pendUpd,
                   repeat, msg, histVars, calVars>>

\* if next_date != to_date(r["next_date"]): UPDATE
UpdateStep ==
    /\ pc = "update"
    /\ LET r == rows[idx] IN
       IF NeedsUpdate(next_date, r)
       THEN execute_update(r.id, UpdatedDate(next_date, r))
       ELSE UNCHANGED <<pendUpd, recurring>>
    /\ pc' = "for"
    /\ UNCHANGED <<transactions, categories, budgets, seq, now, rows, idx,
                   next_date, made, pendIns, passLog, repeat, msg, histVars,
                   calVars>>

\* conn.commit(); return made; the toast of the caller
CommitStep ==
    /\ pc = "commit"
    /\ transactions' = transactions \o pendIns
    /\ recurring' = ApplyUpdates(recurring, pendUpd)
    /\ seq' = [seq EXCEPT !.transactions = @ + Len(pendIns)]
    /\ pendIns' = <<>>
    /\ pendUpd' = <<>>
    /\ msg' = IF made # 0 THEN "Posted recurring transaction(s)." ELSE ""
    /\ pc' = "ui"
    /\ lastPosted' = [id \in RuleIds |->
                        IF LogDates(passLog, id) # <<>>
                        THEN Last(LogDates(passLog, id)) ELSE lastPosted[id]]
    /\ edited' = [id \in RuleIds |->
                        IF LogDates(passLog, id) # <<>> THEN FALSE ELSE edited[id]]
    /\ clean' = TRUE
    /\ UNCHANGED <<categories, budgets, now, rows, idx, next_date, made,
                   passLog, repeat, lastSet, calVars>>

\* A statement or the commit raises (a store failure): the run ends, the
\* connection is dropped with its transaction open, and SQLite rolls it back.
PassFails ==
    /\ pc \in PassPcs
    /\ pendIns' = <<>>
    /\ pendUpd' = <<>>
    /\ msg' = "exception"
    /\ pc' = "idle"
    /\ clean' = FALSE
    /\ rows' = <<>>
    /\ next_date' = NoDate
    /\ passLog' = <<>>
    /\ repeat' = FALSE
    /\ UNCHANGED <<dbVars, now, idx, made, lastPosted, edited, lastSet, calVars>>

\* the script run is over: its locals are gone; the date of the run is kept
\* to tell a pass that repeats it
EndRun ==
    /\ pc' = "idle"
    /\ rows' = <<>>
    /\ idx' = 0
    /\ next_date' = NoDate
    /\ made' = 0
    /\ pendIns' = <<>>
    /\ pendUpd' = <<>>
    /\ passLog' = <<>>
    /\ repeat' = FALSE
    /\ UNCHANGED now

\* the run ends with no button pressed
NoEvent ==
    /\ pc = "ui"
    /\ EndRun
    /\ UNCHANGED <<dbVars, msg, histVars, calVars>>

PosterStep == ForStep \/ WhileStep \/ UpdateStep \/ CommitStep \/ PassFails

----------------------------------------------------------------------------
(* Recurring tab *)

SetAt(f, id, v) == [k \in DOMAIN f |-> IF k = id THEN v ELSE f[k]]

HasRule(id) == \E i \in DOMAIN recurring : recurring[i].id = id

\* form add_recurring, "Add Recurring"; the form always writes "monthly"
AddRecurring(r_type, r_cat, r_desc, r_amt, r_next) ==
    /\ pc = "ui"
    /\ seq.recurring < MaxRuleId
    /\ r_cat \in categories
    /\ r_amt >= 0
    /\ IF r_amt > 0
       THEN /\ recurring' = Append(recurring,
                    Rule(seq.recurring + 1, r_type, r_cat, r_desc, r_amt,
                         "monthly", isoformat(r_next)))
            /\ seq' = [seq EXCEPT !.recurring = @ + 1]
            /\ msg' = "Recurring item added."
            /\ lastPosted' = SetAt(lastPosted, seq.recurring + 1, 0)
            /\ edited' = SetAt(edited, seq.recurring + 1, FALSE)
            /\ clean' = FALSE
       ELSE /\ msg' = "Amount must be > 0"
            /\ UNCHANGED <<recurring, seq, lastPosted, edited, clean>>
    /\ EndRun
    /\ UNCHANGED <<transactions, categories, budgets, lastSet, calVars>>

\* "Save" of a listed rule: every field but interval is written as entered
SaveRecurring(id, nr_type, nr_cat, nr_desc, nr_amt, nr_next) ==
    /\ pc = "ui"
    /\ HasRule(id)
    /\ nr_cat \in categories
    /\ recurring' = [i \in DOMAIN recurring |->
            IF recurring[i].id = id
            THEN Rule(id, nr_type, nr_cat, nr_desc, nr_amt,
                      recurring[i].interval, isoformat(nr_next))
            ELSE recurring[i]]
    /\ msg' = "Saved."
    /\ edited' = SetAt(edited, id, TRUE)
    /\ clean' = FALSE
    /\ EndRun
    /\ UNCHANGED <<transactions, categories, budgets, seq, lastPosted, lastSet, calVars>>

\* "Delete" of a listed rule
DeleteRecurring(id) ==
    /\ pc = "ui"
    /\ HasRule(id)
    /\ recurring' = SelectSeq(recurring, LAMBDA r : r.id # id)
    /\ msg' = "Deleted."
    /\ clean' = FALSE
    /\ EndRun
    /\ UNCHANGED <<transactions, categories, budgets, seq, lastPosted, edited, lastSet, calVars>>

----------------------------------------------------------------------------
(* Backup / Restore DB: the uploaded file replaces the database file        *)

\* a database whose rules were not written by the form: an interval other
\* than "monthly" is accepted by the schema
ImageWeekly ==
    [transactions |-> <<>>,
     categories |-> DefaultCategories,
     budgets |-> <<>>,
     recurring |-> <<Rule(1, "Expense", "Rent", "gym", 500, "weekly", 20240115),
                     Rule(2, "Income", "Salary", "pay", 900, "monthly", 20240131)>>,
     seq |-> [transactions |-> 0, budgets |-> 0, recurring |-> 2]]

BackupImages == {ImageWeekly}

RestoreDB(img) ==
    /\ pc = "ui"
    /\ transactions' = img.transactions
    /\ categories' = img.categories
    /\ budgets' = img.budgets
    /\ recurring' = img.recurring
    /\ seq' = img.seq
    /\ msg' = "Database restored. Refresh the app."
    /\ lastPosted' = [id \in RuleIds |-> 0]
    /\ edited' = [id \in RuleIds |-> FALSE]
    /\ clean' = FALSE
    /\ lastSet' = <<>>
    /\ EndRun
    /\ UNCHANGED <<calVars>>

----------------------------------------------------------------------------
(* Sidebar: Quick Add, Import CSV; Transactions tab; categories *)

\* the first entry of the Quick Add selectbox
AddNew == "+ Add new ..."

\* str.strip on the texts the model enters
strip(t) ==
    CASE t = " " -> ""
      [] t = " Gym " -> "Gym"
      [] OTHER -> t

\* INSERT OR IGNORE INTO categories(name); commit
upsert_category(name) == categories' = categories \cup {name}

HasTxn(id) == \E i \in DOMAIN transactions : transactions[i].id = id

\* form add_txn, "Add Transaction".  A typed new category is stored while
\* the form is read, before the submission is validated.
QuickAdd(ttype, date, sel, new_cat, desc, amount, account) ==
    /\ pc = "ui"
    /\ sel \in {AddNew} \cup categories
    /\ amount >= 0
    /\ LET typed    == sel = AddNew /\ new_cat # ""
           category == IF typed THEN strip(new_cat) ELSE sel
       IN  /\ IF typed THEN upsert_category(strip(new_cat))
                       ELSE UNCHANGED categories
           /\ IF category # "" /\ amount > 0
              THEN /\ transactions' = Append(transactions,
                          Txn(seq.transactions + 1, isoformat(date), ttype,
                              category, desc, amount, account))
                   /\ seq' = [seq EXCEPT !.transactions = @ + 1]
                   /\ msg' = "Added!"
              ELSE /\ msg' = "Please provide category and positive amount."
                   /\ UNCHANGED <<transactions, seq>>
    /\ EndRun
    /\ UNCHANGED <<budgets, recurring, histVars, calVars>>

RequiredCols == {"date", "ttype", "category", "description", "amount"}

\* df["ttype"].where(df["ttype"].isin(["Expense","Income"]), "Expense")
CoerceType(t) == IF t \in {"Expense", "Income"} THEN t ELSE "Expense"

\* Import CSV: every row of the file is inserted, then one commit
ImportCSV(df) ==
    /\ pc = "ui"
    /\ IF ~(RequiredCols \subseteq df.columns)
       THEN /\ msg' = "CSV must include columns"
            /\ UNCHANGED <<transactions, seq>>
       ELSE /\ transactions' = transactions \o
                [k \in 1..Len(df.rows) |->
                    Txn(seq.transactions + k,
                        isoformat(to_date(df.rows[k].date)),
                        CoerceType(df.rows[k].ttype),
                        df.rows[k].category,
                        df.rows[k].description,
                        df.rows[k].amount,
                        IF "account" \in df.columns
                        THEN df.rows[k].account ELSE "Imported")]
            /\ seq' = [seq EXCEPT !.transactions = @ + Len(df.rows)]
            /\ msg' = "Imported rows"
    /\ EndRun
    /\ UNCHANGED <<categories, budgets, recurring, histVars, calVars>>

\* "Save" of a listed transaction: the amount input has no minimum
EditTxn(id, new_date, new_type, new_cat, new_amt, new_desc, new_acc) ==
    /\ pc = "ui"
    /\ HasTxn(id)
    /\ new_cat \in categories
    /\ transactions' = [i \in DOMAIN transactions |->
            IF transactions[i].id = id
            THEN Txn(id, isoformat(new_date), new_type, new_cat, new_desc,
                     new_amt, new_acc)
            ELSE transactions[i]]
    /\ msg' = "Saved. Reload to see updates above."
    /\ EndRun
    /\ UNCHANGED <<categories, budgets, recurring, seq, histVars,
                   calVars>>

\* "Delete" of a listed transaction
DeleteTxn(id) ==
    /\ pc = "ui"
    /\ HasTxn(id)
    /\ transactions' = SelectSeq(transactions, LAMBDA t : t.id # id)
    /\ msg' = "Deleted. Reload filters to refresh list."
    /\ EndRun
    /\ UNCHANGED <<categories, budgets, recurring, seq, histVars,
                   calVars>>

\* Manage Categories: "Add Category"
AddCategory(newc) ==
    /\ pc = "ui"
    /\ strip(newc) # ""
    /\ upsert_category(strip(newc))
    /\ msg' = "Category added."
    /\ EndRun
    /\ UNCHANGED <<transactions, budgets, recurring, seq, histVars,
                   calVars>>

\* delete_category that also removes the rows naming the category
delete_category_cascade(name) ==
    /\ categories' = categories \ {name}
    /\ transactions' = SelectSeq(transactions, LAMBDA t : t.category # name)
    /\ UNCHANGED <<budgets, recurring, seq>>

\* DELETE FROM categories WHERE name=?; commit
delete_category(name) ==
    /\ categories' = categories \ {name}
    /\ UNCHANGED <<transactions, budgets, recurring, seq>>

\* Manage Categories: "Confirm Delete"
DeleteCategory(delc) ==
    /\ pc = "ui"
    /\ delc \in categories
    /\ delete_category(delc)
    /\ msg' = "Category deleted from list."
    /\ EndRun
    /\ UNCHANGED <<histVars, calVars>>

----------------------------------------------------------------------------
(* Budgets tab *)

BudgetRows(tbl, month, category) ==
    {i \in DOMAIN tbl : tbl[i].month = month /\ tbl[i].category = category}

\* INSERT OR IGNORE in place of the upsert: a second call keeps the old row
set_budget_ignore(month, category, amount) ==
    IF BudgetRows(budgets, month, category) # {}
    THEN UNCHANGED <<budgets, seq>>
    ELSE /\ budgets' = Append(budgets, Budget(seq.budgets + 1, month, category, amount))
         /\ seq' = [seq EXCEPT !.budgets = @ + 1]

\* INSERT INTO budgets ... ON CONFLICT(month, category) DO UPDATE SET
\* amount=excluded.amount; commit
set_budget(month, category, amount) ==
    IF BudgetRows(budgets, month, category) # {}
    THEN /\ budgets' = [i \in DOMAIN budgets |->
                IF i \in BudgetRows(budgets, month, category)
                THEN [budgets[i] EXCEPT !.amount = amount] ELSE budgets[i]]
         /\ UNCHANGED seq
    ELSE /\ budgets' = Append(budgets, Budget(seq.budgets + 1, month, category, amount))
         /\ seq' = [seq EXCEPT !.budgets = @ + 1]

\* months = [month_key(add_months(today.replace(day=1), i)) for i in range(-6, 7)]
MonthChoices == {month_key(add_months(Date(now.year, now.month, 1), i)) : i \in -6..6}

\* "Save Budget" for the selected month and category
SaveBudget(sel_month, cat, amt) ==
    /\ pc = "ui"
    /\ sel_month \in MonthChoices
    /\ cat \in categories
    /\ amt >= 0
    /\ (BudgetRows(budgets, sel_month, cat) # {} \/ seq.budgets < MaxBudgetId)
    /\ set_budget(sel_month, cat, amt)
    /\ lastSet' = (<<sel_month, cat>> :>
                      [amount |-> amt, again |-> <<sel_month, cat>> \in DOMAIN lastSet])
                  @@ lastSet
    /\ msg' = "Budget saved."
    /\ EndRun
    /\ UNCHANGED <<transactions, categories, recurring, lastPosted,
                   edited, clean, calVars>>

----------------------------------------------------------------------------
(* The poster and the rules it reads *)

TTypes == {"Expense", "Income"}
NowDates == {20240110, 20240115, 20240229, 20240410}
RuleDates == {20240115, 20240131}

NextPoster ==
    \/ \E today \in NowDates : Rerun(today)
    \/ PosterStep
    \/ NoEvent
    \/ \E d \in RuleDates : AddRecurring("Expense", "Rent", "rent", 500, to_date(d))
    \/ \E id \in RuleIds, d \in RuleDates :
            SaveRecurring(id, "Expense", "Rent", "rent", 500, to_date(d))
    \/ \E id \in RuleIds : DeleteRecurring(id)
    \/ \E img \in BackupImages : RestoreDB(img)

SpecPoster == Init /\ [][NextPoster]_vars

----------------------------------------------------------------------------
(* Properties of the poster *)

RuleById(tbl, id) == CHOOSE r \in Range(tbl) : r.id = id

\* the k-th date of the sequence d, add_months(d,1), add_months(add_months(d,1),1), ...
RECURSIVE Occurrence(_, _)
Occurrence(d, k) == IF k = 0 THEN d ELSE add_months(Occurrence(d, k - 1), 1)

\* no occurrence with an index above this can be on or before today
SpanOf(d, today) ==
    LET n == (today.year - d.year) * 12 + (today.month - d.month) + 1
    IN  IF n < 0 THEN 0 ELSE n

\* the indices of the occurrences of d that are on or before today
DueIndices(d, today) ==
    {k \in 0..SpanOf(d, today) : DateLE(Occurrence(d, k), today)}

\* the first date of the sequence strictly after today
FirstAfter(d, today) ==
    Occurrence(d, CHOOSE k \in 0..(SpanOf(d, today) + 1) :
                    /\ ~DateLE(Occurrence(d, k), today)
                    /\ \A j \in 0..(k - 1) : DateLE(Occurrence(d, j), today))

\* the rows the pass added to the table are the logged INSERTs, in order,
\* each carrying its rule's fields and the account "Recurring"
PostedAsLogged ==
    /\ Len(passLog) = made
    /\ Len(transactions) >= made
    /\ \A k \in 1..made :
        LET t == transactions[Len(transactions) - made + k]
            r == RuleById(rows, passLog[k].rid)
        IN  /\ t.date = passLog[k].date
            /\ t.account = "Recurring"
            /\ <<t.ttype, t.category, t.description, t.amount>>
                 = <<r.ttype, r.category, r.description, r.amount>>

PassDone == pc = "ui"

\* C1 (catch-up): when a pass has committed, for every rule that was
\* "monthly" the pass posted exactly one transaction for each date of the
\* sequence next_date, add_months(next_date,1), ... that is on or before
\* now, in order, posted nothing else for the rule, and left the rule's
\* next_date at the first date of the sequence strictly after now.
C1_CatchUp ==
    PassDone =>
        /\ PostedAsLogged
        /\ \A i \in DOMAIN rows :
            rows[i].interval = "monthly" =>
                LET d0  == to_date(rows[i].next_date)
                    due == DueIndices(d0, now)
                    log == LogDates(passLog, rows[i].id)
                IN  /\ Len(log) = Cardinality(due)
                    /\ \A k \in 1..Len(log) :
                          /\ (k - 1) \in due
                          /\ log[k] = isoformat(Occurrence(d0, k - 1))
                    /\ RuleById(recurring, rows[i].id).next_date
                          = isoformat(FirstAfter(d0, now))

\* a rule due since 2024-01-15 is caught up on 2024-04-10 with three rows
C1_Witness ==
    /\ PassDone
    /\ now = to_date(20240410)
    /\ \E i \in DOMAIN rows :
        /\ rows[i].interval = "monthly"
        /\ rows[i].next_date = 20240115
        /\ LogDates(passLog, rows[i].id) = <<20240115, 20240215, 20240315>>
        /\ recurring[i].next_date = 20240415

\* the rules of the pass that are not "monthly" and are due
DueOther == {i \in DOMAIN rows :
                /\ rows[i].interval # "monthly"
                /\ DateLE(to_date(rows[i].next_date), now)}

\* C2 as claimed (idempotence for every rule set): a pass that follows a
\* committed pass with the same now, no rule having changed in between,
\* posts nothing and changes no rule.
C2_Idempotent ==
    (PassDone /\ repeat) => (made = 0 /\ recurring = rows)

\* C2 amended: such a second pass changes no rule and posts nothing for a
\* "monthly" rule; it posts one more transaction for each due rule of
\* another interval, so it returns 0 exactly when no such rule is due.
C2_IdempotentMonthly ==
    (PassDone /\ repeat) =>
        /\ recurring = rows
        /\ made = Cardinality(DueOther)
        /\ \A i \in DOMAIN rows :
              rows[i].interval = "monthly" => LogDates(passLog, rows[i].id) = <<>>

\* a second pass with the same now over a monthly rule that has posted
C2_Witness ==
    /\ PassDone
    /\ repeat
    /\ made = 0
    /\ \E i \in DOMAIN rows :
        /\ rows[i].interval = "monthly"
        /\ lastPosted[rows[i].id] # 0
        /\ DateLE(to_date(lastPosted[rows[i].id]), now)

\* what a step taken inside a pass may do to the stored tables
AtomicPassStep ==
    pc \in PassPcs =>
        IF pc' = "ui"
        THEN /\ Len(transactions') = Len(transactions) + made
             /\ PostedAsLogged'
             /\ \A k \in DOMAIN pendUpd :
                   RuleById(recurring', pendUpd[k].id).next_date = pendUpd[k].next_date
        ELSE UNCHANGED <<transactions, recurring, seq>>

\* C3 (atomic pass): no step of a pass changes the stored tables except its
\* commit, which stores every INSERT and every UPDATE of the pass together;
\* a pass that is interrupted leaves the tables as they were.
C3_AtomicPass == [][AtomicPassStep]_vars

\* a pass failed after two INSERTs and the UPDATE of its first rule, and
\* the tables hold none of it
C3_Witness ==
    /\ pc = "idle"
    /\ msg = "exception"
    /\ made >= 2
    /\ idx = 2
    /\ Len(recurring) = 2
    /\ recurring[1].interval = "monthly"
    /\ DateLE(to_date(recurring[1].next_date), now)
    /\ transactions = <<>>

\* C4 (unsupported interval): when a pass has committed, for every rule
\* whose interval was not "monthly" the pass posted exactly one transaction,
\* dated next_date, if next_date <= now and none otherwise, and the rule is
\* stored as it was.
C4_OtherInterval ==
    PassDone =>
        /\ PostedAsLogged
        /\ \A i \in DOMAIN rows :
            rows[i].interval # "monthly" =>
                /\ LogDates(passLog, rows[i].id) =
                      IF DateLE(to_date(rows[i].next_date), now)
                      THEN <<rows[i].next_date>> ELSE <<>>
                /\ recurring[i] = rows[i]

\* a weekly rule due since 2024-01-15 posts once on 2024-04-10
C4_Witness ==
    /\ PassDone
    /\ now = to_date(20240410)
    /\ \E i \in DOMAIN rows :
        /\ rows[i].interval = "weekly"
        /\ rows[i].next_date = 20240115
        /\ LogDates(passLog, rows[i].id) = <<20240115>>
        /\ recurring[i].next_date = 20240115

\* C5 as claimed (rule invariant): every stored rule's next_date is on or
\* after the date of the last transaction the poster posted from it.
C5_NextDateNotBehind ==
    \A i \in DOMAIN recurring :
        lastPosted[recurring[i].id] # 0 =>
            DateLE(to_date(lastPosted[recurring[i].id]),
                   to_date(recurring[i].next_date))

\* C5 amended: the same, for every rule whose Save has not been pressed
\* since the poster last posted from it.
C5_NextDateNotBehindUnlessEdited ==
    \A i \in DOMAIN recurring :
        (lastPosted[recurring[i].id] # 0 /\ ~edited[recurring[i].id]) =>
            DateLE(to_date(lastPosted[recurring[i].id]),
                   to_date(recurring[i].next_date))

\* a rule the poster has caught up over several months
C5_Witness ==
    \E i \in DOMAIN recurring :
        /\ lastPosted[recurring[i].id] = 20240315
        /\ ~edited[recurring[i].id]
        /\ recurring[i].next_date = 20240415

\* a rule of the pass has an occurrence on or before now
HadDue(r) == DateLE(to_date(r.next_date), now)

\* what a step of apply_recurring(now), its commit included, may change in
\* the stored tables
PosterFrameStep ==
    pc \in PassPcs =>
        /\ UNCHANGED <<categories, budgets>>
        /\ seq'.budgets = seq.budgets
        /\ seq'.recurring = seq.recurring
        /\ Len(transactions') >= Len(transactions)
        /\ SubSeq(transactions', 1, Len(transactions)) = transactions
        /\ \A k \in (Len(transactions) + 1)..Len(transactions') :
              /\ transactions'[k].account = "Recurring"
              /\ \E i \in DOMAIN recurring :
                    /\ HadDue(recurring[i])
                    /\ passLog[k - Len(transactions)].rid = recurring[i].id
                    /\ <<transactions'[k].ttype, transactions'[k].category,
                          transactions'[k].description, transactions'[k].amount>>
                        = <<recurring[i].ttype, recurring[i].category,
                            recurring[i].description, recurring[i].amount>>
        /\ DOMAIN recurring' = DOMAIN recurring
        /\ \A i \in DOMAIN recurring :
              /\ [recurring'[i] EXCEPT !.next_date = recurring[i].next_date]
                    = recurring[i]
              /\ recurring'[i] # recurring[i] => HadDue(recurring[i])
              /\ ~HadDue(recurring[i]) =>
                    LogDates(passLog, recurring[i].id) = <<>>

\* C11 (poster frame): a call apply_recurring(now) changes nothing in the
\* store except that it appends transactions, each with the account
\* "Recurring" and the fields of a rule that was due, and that it changes
\* the next_date of rules that had a due occurrence: the transactions that
\* were there stay as they were and where they were, categories and budgets
\* are not touched, no rule is added or removed, no field of a rule other
\* than next_date changes, and a rule whose next_date is strictly after now
\* stays as it was and has no transaction posted from it.
C11_PosterFrame == [][PosterFrameStep]_vars

\* a pass has committed over a table that held a transaction already: it
\* posted from a due rule and moved its next_date, and left a rule that was
\* not due as it was
C11_Witness ==
    /\ PassDone
    /\ made >= 1
    /\ Len(transactions) > made
    /\ \E i, j \in DOMAIN rows :
        /\ DateLE(to_date(rows[i].next_date), now)
        /\ recurring[i].next_date # rows[i].next_date
        /\ LogDates(passLog, rows[i].id) # <<>>
        /\ ~DateLE(to_date(rows[j].next_date), now)
        /\ recurring[j] = rows[j]
        /\ LogDates(passLog, rows[j].id) = <<>>

----------------------------------------------------------------------------
(* Termination of the poster *)

\* the statements of apply_recurring that do not raise: the interpreter runs
\* the next one as long as there is one
PassProgress == ForStep \/ WhileStep \/ UpdateStep \/ CommitStep

TermNowDates == {20240115, 20240310}
TermRuleDates == {20231231, 20240131}

NextTermination ==
    \/ \E today \in TermNowDates : Rerun(today)
    \/ PassProgress
    \/ PassFails
    \/ NoEvent
    \/ \E d \in TermRuleDates : AddRecurring("Expense", "Rent", "rent", 500, to_date(d))
    \/ \E img \in BackupImages : RestoreDB(img)

SpecTermination == Init /\ [][NextTermination]_vars /\ WF_vars(PassProgress)

\* the number of months from the month of the cursor to the month of now,
\* plus one; 0 when the cursor's month is after now's
Remaining == SpanOf(next_date, now)

\* one test of the while condition: a turn of the body for a "monthly" rule
\* moves the cursor strictly forward and takes one off Remaining, a turn for
\* a rule of another interval leaves the loop, and so does a failed test
LoopVariantStep ==
    pc = "while" =>
        \/ pc' = "idle"
        \/ /\ LoopCond(next_date, now)
           /\ rows[idx].interval = "monthly"
           /\ pc' = "while"
           /\ DateLE(next_date, next_date')
           /\ next_date' # next_date
           /\ Remaining >= 1
           /\ Remaining' = Remaining - 1
        \/ /\ LoopCond(next_date, now)
           /\ rows[idx].interval # "monthly"
           /\ pc' = "update"
        \/ /\ ~LoopCond(next_date, now)
           /\ pc' = "update"

\* the turns the loop of the current rule has taken are no more than the
\* months from the rule's next_date to now, plus one
LoopBounded ==
    pc = "while" =>
        Len(LogDates(passLog, rows[idx].id))
            <= SpanOf(to_date(rows[idx].next_date), now)

\* C12 (poster termination): apply_recurring(now) terminates.  Every turn of
\* the while loop of a "monthly" rule moves the cursor strictly forward (the
\* clamped days included) and brings it one month nearer to now, a turn for
\* a rule of any other interval is the loop's last, the turns taken for a
\* rule are bounded by the months between its next_date and now, every
\* while loop that is entered is left, and every pass that starts reaches
\* its commit or raises.
C12_Terminates ==
    /\ [][LoopVariantStep]_vars
    /\ []LoopBounded
    /\ (pc = "while") ~> (pc # "while")
    /\ (pc \in PassPcs) ~> (pc \in {"ui", "idle"})

\* a pass has committed on 2024-03-10: the loop of the weekly rule took one
\* turn, and the loop of the monthly rule due since 2024-01-31 took two,
\* the second with the day clamped to 2024-02-29
C12_Witness ==
    /\ PassDone
    /\ now = to_date(20240310)
    /\ \E i, j \in DOMAIN rows :
        /\ rows[i].interval = "monthly"
        /\ LogDates(passLog, rows[i].id) = <<20240131, 20240229>>
        /\ recurring[i].next_date = 20240329
        /\ rows[j].interval = "weekly"
        /\ LogDates(passLog, rows[j].id) = <<20240115>>

----------------------------------------------------------------------------
(* The ledger: every way a transaction is written *)

\* rows past this many are not added by hand or by import
MaxRows == 2

Today == 20240410

CsvFiles ==
    {[columns |-> RequiredCols,
      rows |-> <<[date |-> 20240401, ttype |-> "Transfer", category |-> "Food",
                  description |-> "", amount |-> 100]>>],
     [columns |-> RequiredCols,
      rows |-> <<[date |-> 20240402, ttype |-> "Income", category |-> "Refund",
                  description |-> "", amount |-> -50]>>],
     [columns |-> {"date", "amount"}, rows |-> <<>>]}

NextLedger ==
    \/ Rerun(Today)
    \/ PosterStep
    \/ NoEvent
    \/ \E sel \in {AddNew, "Food"}, new_cat \in {"", " ", " Gym "}, amount \in {0, 100} :
            /\ Len(transactions) < MaxRows
            /\ QuickAdd("Expense", to_date(Today), sel, new_cat, "", amount, "Cash")
    \/ \E df \in CsvFiles :
            /\ Len(transactions) < MaxRows
            /\ ImportCSV(df)
    \/ \E id \in 1..MaxRows, new_type \in TTypes, new_amt \in {-100, 100} :
            EditTxn(id, to_date(Today), new_type, "Food", new_amt, "", "Cash")
    \/ \E id \in 1..MaxRows : DeleteTxn(id)
    \/ AddRecurring("Expense", "Rent", "rent", 500, to_date(20240315))
    \/ \E id \in RuleIds, nr_amt \in {-500, 500} :
            SaveRecurring(id, "Expense", "Rent", "rent", nr_amt, to_date(20240315))

SpecLedger == Init /\ [][NextLedger]_vars

\* C6 (transaction invariant): every stored transaction has amount >= 0
\* and type Expense or Income.
C6_TxnInvariant ==
    \A i \in DOMAIN transactions :
        /\ transactions[i].amount >= 0
        /\ transactions[i].ttype \in {"Expense", "Income"}

\* a Quick Add submission with no category supplied or a non-positive amount
InvalidQuickAdd(sel, new_cat, amount) ==
    (sel = AddNew /\ new_cat = "") \/ amount <= 0

\* a Quick Add step with an invalid submission leaves the database as it was
QuickAddInvalidStep ==
    \A sel \in {AddNew, "Food"}, new_cat \in {"", " ", " Gym "}, amount \in {0, 100} :
        (/\ InvalidQuickAdd(sel, new_cat, amount)
         /\ QuickAdd("Expense", to_date(Today), sel, new_cat, "", amount, "Cash"))
        => (/\ msg' = "Please provide category and positive amount."
            /\ UNCHANGED dbVars)

\* C7 (validation leaves state unchanged): an invalid Quick Add submission
\* is answered with the error and changes nothing stored: no transaction is
\* inserted and no category is added.
C7_InvalidQuickAddNoChange == [][QuickAddInvalidStep]_vars

----------------------------------------------------------------------------
(* Budgets and categories *)

BudgetDay == 20240310

NextStore ==
    \/ Rerun(BudgetDay)
    \/ PosterStep
    \/ NoEvent
    \/ \E m \in {202309, 202403, 202409}, amt \in {1000, 1500} :
            SaveBudget(m, "Food", amt)
    \/ \E newc \in {" Gym "} : AddCategory(newc)
    \/ \E delc \in {"Food", "Gym"} : DeleteCategory(delc)
    \/ /\ Len(transactions) < MaxRows
       /\ QuickAdd("Expense", to_date(BudgetDay), "Food", "", "", 100, "Cash")
    \/ AddRecurring("Expense", "Food", "lunch", 500, to_date(20240315))

SpecStore == Init /\ [][NextStore]_vars

\* C8 (budget upsert): the table holds exactly one row for every
\* (month, category) set_budget was called for and none for any other pair,
\* and the row's amount is the amount of the last call for its pair.
C8_BudgetUpsert ==
    /\ \A i \in DOMAIN budgets :
          /\ <<budgets[i].month, budgets[i].category>> \in DOMAIN lastSet
          /\ BudgetRows(budgets, budgets[i].month, budgets[i].category) = {i}
          /\ budgets[i].amount = lastSet[<<budgets[i].month, budgets[i].category>>].amount
    /\ \A pair \in DOMAIN lastSet : BudgetRows(budgets, pair[1], pair[2]) # {}

\* (2024-03, Food) was set twice, last to 1500, beside another month's row
C8_Witness ==
    /\ <<202403, "Food">> \in DOMAIN lastSet
    /\ lastSet[<<202403, "Food">>] = [amount |-> 1500, again |-> TRUE]
    /\ \E i \in DOMAIN budgets :
          budgets[i] = Budget(budgets[i].id, 202403, "Food", 1500)
    /\ \E i \in DOMAIN budgets :
          budgets[i] = Budget(budgets[i].id, 202409, "Food", 1000)

\* what the step that deletes a category does
DeleteCategoryStep ==
    (pc = "ui" /\ msg' = "Category deleted from list.") =>
        /\ \E name \in categories : categories' = categories \ {name}
        /\ UNCHANGED <<transactions, budgets, recurring>>

\* C9 (category deletion frame): deleting a category removes that one label
\* and leaves every transaction, budget and recurring rule as it was.
C9_DeleteCategoryFrame == [][DeleteCategoryStep]_vars

\* Food was deleted while a transaction, a budget and a rule name it
C9_Witness ==
    /\ msg = "Category deleted from list."
    /\ "Food" \notin categories
    /\ \E i \in DOMAIN transactions : transactions[i].category = "Food"
    /\ \E i \in DOMAIN budgets : budgets[i].category = "Food"
    /\ \E i \in DOMAIN recurring : recurring[i].category = "Food"

----------------------------------------------------------------------------
(* add_months on its own *)

\* Gregorian leap year
Leap(y) == (y % 4 = 0 /\ y % 100 # 0) \/ y % 400 = 0

\* days of a calendar month
DaysIn(y, m) ==
    CASE m \in {4, 6, 9, 11} -> 30
      [] m = 2 -> IF Leap(y) THEN 29 ELSE 28
      [] OTHER -> 31

CalYears == {1899, 1900, 1901, 1999, 2000, 2001, 2023, 2024, 2025, 2100}

CalDates ==
    {Date(y, m, d) : y \in CalYears, m \in 1..12, d \in {1, 15, 28, 29, 30, 31}}

InitAddMonths ==
    /\ InitDb
    /\ InitRun
    /\ calD \in {d \in CalDates : d.day <= DaysIn(d.year, d.month)}
    /\ calN \in (0 - MaxShift)..MaxShift
    /\ calR = NoDate

CalAddMonths ==
    /\ calR = NoDate
    /\ calR' = add_months(calD, calN)
    /\ UNCHANGED <<dbVars, pc, passVars, msg, histVars, calD, calN>>

NextCal == CalAddMonths

SpecCal == InitAddMonths /\ [][NextCal]_vars

\* C10 (add_months result): the result lies in the month calN months from
\* calD's month, and its day is the smaller of calD's day and the number of
\* days of that month, February having 29 days exactly in Gregorian leap
\* years.
C10_AddMonths ==
    calR # NoDate =>
        /\ calR.month \in 1..12
        /\ calR.year * 12 + calR.month = calD.year * 12 + calD.month + calN
        /\ calR.day = Min(calD.day, DaysIn(calR.year, calR.month))

\* thirteen months back from 2001-03-31 is 2000-02-29
C10_Witness ==
    /\ calD = Date(2001, 3, 31)
    /\ calN = -13
    /\ calR = Date(2000, 2, 29)

----------------------------------------------------------------------------
(* The whole script: every handler with the inputs above.  The properties   *)
(* are checked under the narrower specifications SpecPoster, SpecLedger,    *)
(* SpecStore and SpecCal, each of which runs the part of the script it is   *)
(* named for.                                                               *)

Next == NextPoster \/ NextLedger \/ NextStore

Spec == Init /\ [][Next]_vars

====
